---- MODULE Spec2Model ----
(***************************************************************************)
(* The task tools of src/mcp/tools.py: add_task, list_tasks, delete_task,  *)
(* update_task_by_title, get_analytics, delete_all_tasks,                  *)
(* complete_all_tasks and mark_all_tasks_incomplete, over one table of     *)
(* Task rows.                                                              *)
(*                                                                         *)
(* Every tool is one action that runs the whole function body against the  *)
(* table and records the call, the table before it and the value returned. *)
(* The caller then takes the result (Return) before the next call.         *)
(* ConcSpec splits the three bulk tools into their session steps (select,  *)
(* loop iteration, commit) and interleaves two sessions with other calls.  *)
(***************************************************************************)
EXTENDS Integers, Sequences, FiniteSets, TLC

VARIABLES
    tasks,      \* the Task table: a set of rows, one per id
    nextId,     \* the next primary key the table hands out
    last,       \* the call that has just returned: tool, arguments, result
    pre,        \* the table as it was when that call started
    prev,       \* tool, user and count of the call before `last`
    sess,       \* ConcSpec: the open Session of each concurrent bulk call
    applied     \* ConcSpec: per session, the rows whose change it has committed

vars == <<tasks, nextId, last, pre, prev, sess, applied>>

----------------------------------------------------------------------------
(* Python values *)

\* Python's None where a str is expected
None == "<None>"

\* None where a date string (a sequence of characters) is expected
NoneS == <<None>>

\* Truthy with the test written `is not None`: "" counts as supplied
TruthyNotNone(x) == x # None

\* bool(x) of an Optional[str]: None and "" are falsy
Truthy(x) == x # None /\ x # ""

\* bool(s) of an Optional[str] held as a sequence of characters
TruthyS(s) == s # NoneS /\ s # <<>>

\* a datetime column holding NULL
NoDate == [y |-> 0, m |-> 0, d |-> 0]

\* what dt.datetime.utcnow() reads (the time of day is left out)
Now == [y |-> 2026, m |-> 1, d |-> 1]

----------------------------------------------------------------------------
(* dt.datetime.strptime(s, "%Y-%m-%d") and datetime.isoformat() *)

Digit == <<"0", "1", "2", "3", "4", "5", "6", "7", "8", "9">>

IsDigit(ch) == \E i \in 1..10 : Digit[i] = ch

DigitVal(ch) == (CHOOSE i \in 1..10 : Digit[i] = ch) - 1

CharAt(s, i) == IF i >= 1 /\ i <= Len(s) THEN s[i] ELSE ""

\* how many characters the directive %m takes at position i: 1[0-2]|0[1-9]|[1-9]
MonthLen(s, i) ==
    IF CharAt(s, i) = "1" /\ CharAt(s, i + 1) \in {"0", "1", "2"} THEN 2
    ELSE IF CharAt(s, i) = "0" /\ IsDigit(CharAt(s, i + 1)) /\ CharAt(s, i + 1) # "0" THEN 2
    ELSE IF IsDigit(CharAt(s, i)) /\ CharAt(s, i) # "0" THEN 1
    ELSE 0

\* how many characters %d takes at position i: 3[01]|[12]\d|0[1-9]|[1-9]| [1-9]
DayLen(s, i) ==
    IF CharAt(s, i) = "3" /\ CharAt(s, i + 1) \in {"0", "1"} THEN 2
    ELSE IF CharAt(s, i) \in {"1", "2"} /\ IsDigit(CharAt(s, i + 1)) THEN 2
    ELSE IF CharAt(s, i) = "0" /\ IsDigit(CharAt(s, i + 1)) /\ CharAt(s, i + 1) # "0" THEN 2
    ELSE IF IsDigit(CharAt(s, i)) /\ CharAt(s, i) # "0" THEN 1
    ELSE IF CharAt(s, i) = " " /\ IsDigit(CharAt(s, i + 1)) /\ CharAt(s, i + 1) # "0" THEN 2
    ELSE 0

\* the number written by the characters i..j of s (a leading blank counts 0)
RECURSIVE NumAt(_, _, _)
NumAt(s, i, j) ==
    IF j < i THEN 0
    ELSE 10 * NumAt(s, i, j - 1) + (IF IsDigit(s[j]) THEN DigitVal(s[j]) ELSE 0)

IsLeap(y) == y % 4 = 0 /\ (y % 100 # 0 \/ y % 400 = 0)

DaysInMonth(y, m) ==
    IF m = 2 THEN (IF IsLeap(y) THEN 29 ELSE 28)
    ELSE IF m \in {4, 6, 9, 11} THEN 30
    ELSE 31

\* strptime(s, "%Y-%m-%d"): the datetime, or NoDate where it raises ValueError
\* (no match of the format, unconverted data, year 0, day out of range)
Strptime(s) ==
    LET ml == MonthLen(s, 6)
        dl == DayLen(s, 7 + ml)
        y  == NumAt(s, 1, 4)
        m  == NumAt(s, 6, 5 + ml)
        d  == NumAt(s, 7 + ml, 6 + ml + dl)
    IN  IF /\ Len(s) >= 8
           /\ \A i \in 1..4 : IsDigit(s[i])
           /\ s[5] = "-"
           /\ ml > 0
           /\ CharAt(s, 6 + ml) = "-"
           /\ dl > 0
           /\ Len(s) = 6 + ml + dl
           /\ y >= 1
           /\ d <= DaysInMonth(y, m)
        THEN [y |-> y, m |-> m, d |-> d]
        ELSE NoDate

\* n in decimal, at least w characters wide, zero padded
RECURSIVE Decimal(_, _)
Decimal(n, w) ==
    IF n < 10 /\ w <= 1 THEN <<Digit[n + 1]>>
    ELSE Decimal(n \div 10, w - 1) \o <<Digit[(n % 10) + 1]>>

\* datetime.isoformat() of a datetime at midnight
IsoFormat(t) ==
    Decimal(t.y, 4) \o <<"-">> \o Decimal(t.m, 2) \o <<"-">> \o Decimal(t.d, 2)
        \o <<"T", "0", "0", ":", "0", "0", ":", "0", "0">>

\* `x.isoformat() if x else None`
IsoOrNone(t) == IF t # NoDate THEN IsoFormat(t) ELSE NoneS

\* str(task.id)
StrId(id) == Decimal(id, 1)

----------------------------------------------------------------------------
(* float arithmetic: completed / total * 100 in IEEE 754 binary64, then    *)
(* int().  A float is [m, e]: the 53-bit significand as five limbs, the    *)
(* leading 1 and four limbs of 13 bits, and the exponent of the leading    *)
(* bit.                                                                    *)

LimbBits == 13

RECURSIVE Pow2(_)
Pow2(n) == IF n = 0 THEN 1 ELSE 2 * Pow2(n - 1)

Limb == Pow2(LimbBits)

\* the shift that brings c / t into [1, 2)
RECURSIVE NormShift(_, _)
NormShift(c, t) == IF c >= t THEN 0 ELSE 1 + NormShift(2 * c, t)

RECURSIVE BitLen(_)
BitLen(n) == IF n = 0 THEN 0 ELSE 1 + BitLen(n \div 2)

\* limbs + carry, the carry running up from the last (least significant)
\* limb; the first limb takes whatever is carried out of the second
RECURSIVE AddCarry(_, _)
AddCarry(limbs, carry) ==
    IF Len(limbs) = 1 THEN <<limbs[1] + carry>>
    ELSE LET n == Len(limbs)
             v == limbs[n] + carry
         IN  AddCarry(SubSeq(limbs, 1, n - 1), v \div Limb) \o <<v % Limb>>

\* the next float up from significand m
RoundUp(m, e) ==
    LET r == AddCarry(m, 1)
    IN  IF r[1] = 2 THEN [m |-> <<1, 0, 0, 0, 0>>, e |-> e + 1] ELSE [m |-> r, e |-> e]

\* n limbs of the quotient r / t (r < t), and the remainder left over
RECURSIVE DivLimbs(_, _, _)
DivLimbs(r, t, n) ==
    IF n = 0 THEN [q |-> <<>>, rem |-> r]
    ELSE LET rest == DivLimbs((r * Limb) % t, t, n - 1)
         IN  [q |-> <<(r * Limb) \div t>> \o rest.q, rem |-> rest.rem]

\* c / t for ints 1 <= c <= t: the quotient rounded to nearest, ties to even
FloatDiv(c, t) ==
    LET s == NormShift(c, t)
        d == DivLimbs(c * Pow2(s) - t, t, 4)
        m == <<1>> \o d.q
    IN  IF 2 * d.rem > t \/ (2 * d.rem = t /\ m[5] % 2 = 1)
        THEN RoundUp(m, 0 - s)
        ELSE [m |-> m, e |-> 0 - s]

\* limbs * k + carry; the first limb of the result is not reduced
RECURSIVE MulLimbs(_, _, _)
MulLimbs(limbs, k, carry) ==
    IF Len(limbs) = 1 THEN <<limbs[1] * k + carry>>
    ELSE LET n == Len(limbs)
             v == limbs[n] * k + carry
         IN  MulLimbs(SubSeq(limbs, 1, n - 1), k, v \div Limb) \o <<v % Limb>>

\* p shifted right by d bits (d <= LimbBits), limb by limb
ShiftRight(p, d) ==
    [i \in 1..Len(p) |->
        (p[i] \div Pow2(d))
            + (IF i = 1 THEN 0 ELSE (p[i - 1] % Pow2(d)) * (Limb \div Pow2(d)))]

\* x * k for an int 1 <= k < Limb: the product rounded to nearest, ties to even
FloatMulInt(x, k) ==
    LET p == MulLimbs(x.m, k, 0)
        d == BitLen(p[1]) - 1
        m == ShiftRight(p, d)
        dropped == p[5] % Pow2(d)
        half == IF d = 0 THEN 1 ELSE Pow2(d - 1)
    IN  IF d > 0 /\ (dropped > half \/ (dropped = half /\ m[5] % 2 = 1))
        THEN RoundUp(m, x.e + d)
        ELSE [m |-> m, e |-> x.e + d]

\* int(x) for a float 0 < x < 2^27: truncation
FloatTrunc(x) ==
    IF x.e < 0 THEN 0
    ELSE IF x.e <= LimbBits THEN Pow2(x.e) + x.m[2] \div Pow2(LimbBits - x.e)
    ELSE Pow2(x.e) + x.m[2] * Pow2(x.e - LimbBits) + x.m[3] \div Pow2(2 * LimbBits - x.e)

\* int((completed / total * 100) if total > 0 else 0); 0 / total is 0.0
Score(completed, total) ==
    IF total > 0
    THEN (IF completed = 0 THEN 0
          ELSE FloatTrunc(FloatMulInt(FloatDiv(completed, total), 100)))
    ELSE 0

----------------------------------------------------------------------------
(* the Task table and its queries *)

\* NewTask with the wrong status literal
NewTaskCompleted(id, user_id, title, description, priority, due_date, tags) ==
    [id |-> id, user_id |-> user_id, title |-> title, description |-> description,
     priority |-> priority, status |-> "completed", due_date |-> due_date,
     tags |-> tags, created_at |-> Now, updated_at |-> NoDate]

\* Task(user_id=..., title=..., ..., status="pending") once inserted
NewTask(id, user_id, title, description, priority, due_date, tags) ==
    [id |-> id, user_id |-> user_id, title |-> title, description |-> description,
     priority |-> priority, status |-> "pending", due_date |-> due_date,
     tags |-> tags, created_at |-> Now, updated_at |-> NoDate]

\* OwnedBy with the where clause left out
OwnedByAnyone(T, user_id) == T

\* select(Task).where(Task.user_id == user_id)
OwnedBy(T, user_id) == {t \in T : t.user_id = user_id}

\* select(Task).where(Task.user_id == user_id, Task.title == title); .first()
\* takes any one of these rows, the query has no ORDER BY
Matching(T, user_id, title) == {t \in T : t.user_id = user_id /\ t.title = title}

\* the rows list_tasks selects: the user's, narrowed by status unless it is
\* falsy or "all"
Listed(T, user_id, status) ==
    IF Truthy(status) /\ status # "all"
    THEN {t \in OwnedBy(T, user_id) : t.status = status}
    ELSE OwnedBy(T, user_id)

\* one entry of list_tasks' task_list
Serialize(t) ==
    [id |-> StrId(t.id), title |-> t.title, description |-> t.description,
     priority |-> t.priority, status |-> t.status,
     due_date |-> IsoOrNone(t.due_date), created_at |-> IsoOrNone(t.created_at)]

\* add_task's parsed_date: None unless due_date is truthy and parses
ParsedDate(due_date) == IF TruthyS(due_date) THEN Strptime(due_date) ELSE NoDate

\* Patched with the test written `if new is not None`
PatchedUnlessNone(new, old) == IF new # None THEN new ELSE old

\* `if new: task.field = new` of update_task_by_title
Patched(new, old) == IF Truthy(new) THEN new ELSE old

\* PatchedDate with the except branch clearing the date
PatchedDateOrNone(due_date, old) ==
    IF TruthyS(due_date) THEN Strptime(due_date) ELSE old

\* update_task_by_title's due_date: set only when truthy and strptime succeeds
PatchedDate(due_date, old) ==
    IF TruthyS(due_date) /\ Strptime(due_date) # NoDate THEN Strptime(due_date) ELSE old

\* the row update_task_by_title commits for row t and arguments a
PatchedTask(t, a) ==
    [t EXCEPT !.title = Patched(a.new_title, @),
              !.description = Patched(a.description, @),
              !.priority = Patched(a.priority, @),
              !.status = Patched(a.status, @),
              !.tags = Patched(a.tags, @),
              !.due_date = PatchedDate(a.due_date, @),
              !.updated_at = Now]

\* WithStatus that only flips rows between "pending" and "completed"
WithStatusFlipped(T, ids, status) ==
    {IF t.id \in ids /\ t.status \in {"pending", "completed"}
     THEN [t EXCEPT !.status = status] ELSE t : t \in T}

\* the rows of T with the rows whose id is in ids set to status
WithStatus(T, ids, status) ==
    {IF t.id \in ids THEN [t EXCEPT !.status = status] ELSE t : t \in T}

\* the rows of T without the rows whose id is in ids
Without(T, ids) == {t \in T : t.id \notin ids}

IdsOf(T) == {t.id : t \in T}

----------------------------------------------------------------------------
(* calls and what they return *)

\* the optional arguments of a call, None where the caller leaves one out
NoArgs ==
    [new_title |-> None, description |-> None, priority |-> None,
     status |-> None, due_date |-> NoneS, tags |-> None]

NoTask == [id |-> <<>>, title |-> None, status |-> None]

NoAnalytics ==
    [tasks_total |-> -1, tasks_completed |-> -1, tasks_pending |-> -1,
     productivity_score |-> -1]

\* a returned call. res is the "status" of the dict returned, or "raised"
\* when the call raised ValueError instead of returning
Call(op, user_id, title, args, res, msg, count, task, listed, analytics) ==
    [op |-> op, user_id |-> user_id, title |-> title, args |-> args,
     res |-> res, msg |-> msg, count |-> count, task |-> task,
     listed |-> listed, analytics |-> analytics]

Raised(op, user_id, title, args, msg) ==
    Call(op, user_id, title, args, "raised", msg, -1, NoTask, {}, NoAnalytics)

\* Error that raises instead of returning
ErrorRaised(op, user_id, title, args, msg) ==
    Call(op, user_id, title, args, "raised", msg, -1, NoTask, {}, NoAnalytics)

Error(op, user_id, title, args, msg) ==
    Call(op, user_id, title, args, "error", msg, -1, NoTask, {}, NoAnalytics)

Success(op, user_id, title, args, count, task, listed, analytics) ==
    Call(op, user_id, title, args, "success", "", count, task, listed, analytics)

NoCall == Call("idle", None, None, NoArgs, "none", "", -1, NoTask, {}, NoAnalytics)

NoPrev ==
    [op |-> "idle", user_id |-> None, title |-> None, res |-> "none",
     count |-> -1, id |-> <<>>, had |-> -1]

Idle == last.op = "idle"

\* a call that leaves the table alone
Returns(call) ==
    /\ last' = call
    /\ pre' = tasks
    /\ UNCHANGED <<tasks, nextId, prev, sess, applied>>

\* a call that commits table T
Commits(T, call) ==
    /\ tasks' = T
    /\ last' = call
    /\ pre' = tasks
    /\ UNCHANGED <<nextId, prev, sess, applied>>

----------------------------------------------------------------------------
(* the tools *)

add_task(user_id, title, description, priority, due_date, tags) ==
    LET a == [NoArgs EXCEPT !.description = description, !.priority = priority,
                            !.due_date = due_date, !.tags = tags]
        task == NewTask(nextId, user_id, title, description, priority,
                        ParsedDate(due_date), tags)
    IN  IF ~Truthy(user_id)
        THEN Returns(Raised("add_task", user_id, title, a, "user_id is required"))
        ELSE /\ tasks' = tasks \cup {task}
             /\ nextId' = nextId + 1
             /\ last' = Success("add_task", user_id, title, a, -1,
                                [id |-> StrId(task.id), title |-> task.title,
                                 status |-> task.status], {}, NoAnalytics)
             /\ pre' = tasks
             /\ UNCHANGED <<prev, sess, applied>>

list_tasks(user_id, status) ==
    LET a == [NoArgs EXCEPT !.status = status]
    IN  IF ~Truthy(user_id)
        THEN Returns(Raised("list_tasks", user_id, None, a, "user_id is required"))
        ELSE Returns(Success("list_tasks", user_id, None, a, -1, NoTask,
                             {Serialize(t) : t \in Listed(tasks, user_id, status)},
                             NoAnalytics))

\* delete_task that deletes every row the query matches
delete_task_every_match(user_id, task_title) ==
    IF ~Truthy(user_id) \/ ~Truthy(task_title)
    THEN Returns(Raised("delete_task", user_id, task_title, NoArgs,
                        "Missing required fields"))
    ELSE IF Matching(tasks, user_id, task_title) = {}
    THEN Returns(Error("delete_task", user_id, task_title, NoArgs, "Task not found."))
    ELSE Commits(tasks \ Matching(tasks, user_id, task_title),
                 Success("delete_task", user_id, task_title, NoArgs, -1,
                         NoTask, {}, NoAnalytics))

delete_task(user_id, task_title) ==
    IF ~Truthy(user_id) \/ ~Truthy(task_title)
    THEN Returns(Raised("delete_task", user_id, task_title, NoArgs,
                        "Missing required fields"))
    ELSE IF Matching(tasks, user_id, task_title) = {}
    THEN Returns(Error("delete_task", user_id, task_title, NoArgs, "Task not found."))
    ELSE \E task \in Matching(tasks, user_id, task_title) :
            Commits(tasks \ {task},
                    Success("delete_task", user_id, task_title, NoArgs, -1,
                            NoTask, {}, NoAnalytics))

update_task_by_title(user_id, current_title, a) ==
    IF ~Truthy(user_id) \/ ~Truthy(current_title)
    THEN Returns(Error("update_task_by_title", user_id, current_title, a,
                       "Missing fields"))
    ELSE IF Matching(tasks, user_id, current_title) = {}
    THEN Returns(Error("update_task_by_title", user_id, current_title, a,
                       "Task not found."))
    ELSE \E task \in Matching(tasks, user_id, current_title) :
            Commits((tasks \ {task}) \cup {PatchedTask(task, a)},
                    Success("update_task_by_title", user_id, current_title, a, -1,
                            [NoTask EXCEPT !.title = PatchedTask(task, a).title],
                            {}, NoAnalytics))

get_analytics(user_id) ==
    LET owned == OwnedBy(tasks, user_id)
        total == Cardinality(owned)
        completed == Cardinality({t \in owned : t.status = "completed"})
        pending == Cardinality({t \in owned : t.status = "pending"})
    IN  IF ~Truthy(user_id)
        THEN Returns(Raised("get_analytics", user_id, None, NoArgs,
                            "user_id is required"))
        ELSE Returns(Success("get_analytics", user_id, None, NoArgs, -1, NoTask, {},
                             [tasks_total |-> total, tasks_completed |-> completed,
                              tasks_pending |-> pending,
                              productivity_score |-> Score(completed, total)]))

delete_all_tasks(user_id) ==
    IF ~Truthy(user_id)
    THEN Returns(Raised("delete_all_tasks", user_id, None, NoArgs,
                        "user_id is required"))
    ELSE Commits(Without(tasks, IdsOf(OwnedBy(tasks, user_id))),
                 Success("delete_all_tasks", user_id, None, NoArgs,
                         Cardinality(OwnedBy(tasks, user_id)), NoTask, {},
                         NoAnalytics))

complete_all_tasks(user_id) ==
    IF ~Truthy(user_id)
    THEN Returns(Raised("complete_all_tasks", user_id, None, NoArgs,
                        "user_id is required"))
    ELSE Commits(WithStatus(tasks, IdsOf(OwnedBy(tasks, user_id)), "completed"),
                 Success("complete_all_tasks", user_id, None, NoArgs,
                         Cardinality(OwnedBy(tasks, user_id)), NoTask, {},
                         NoAnalytics))

mark_all_tasks_incomplete(user_id) ==
    IF ~Truthy(user_id)
    THEN Returns(Raised("mark_all_tasks_incomplete", user_id, None, NoArgs,
                        "user_id is required"))
    ELSE Commits(WithStatus(tasks, IdsOf(OwnedBy(tasks, user_id)), "pending"),
                 Success("mark_all_tasks_incomplete", user_id, None, NoArgs,
                         Cardinality(OwnedBy(tasks, user_id)), NoTask, {},
                         NoAnalytics))

\* the caller takes the returned value. A caller keeps what a successful
\* add_task or complete_all_tasks told it, to compare with its next call: the
\* tool, the user, the title, the id returned, the count, and (add_task) how
\* many of the user's rows had that title before
Return ==
    /\ ~Idle
    /\ last' = NoCall
    /\ pre' = {}
    /\ prev' = IF last.op \in {"add_task", "complete_all_tasks"} /\ last.res = "success"
               THEN [op |-> last.op, user_id |-> last.user_id, title |-> last.title,
                     res |-> last.res, count |-> last.count, id |-> last.task.id,
                     had |-> IF last.op = "add_task"
                             THEN Cardinality(Matching(pre, last.user_id, last.title))
                             ELSE -1]
               ELSE NoPrev
    /\ UNCHANGED <<tasks, nextId, sess, applied>>

----------------------------------------------------------------------------
(* Spec: two users, every tool, at most MaxId rows ever inserted *)

MaxId == 2

UserIds == {None, "", "u1", "u2"}

\* titles of the tasks Spec's callers create
Titles == {"a", "b"}

\* titles Spec's callers look up: those, and the empty one
LookupTitles == Titles \cup {""}

\* the optional arguments Spec's callers pass to update_task_by_title
SpecPatches ==
    {[NoArgs EXCEPT !.new_title = nt, !.status = st] :
        nt \in {None, "b"}, st \in {None, "completed", "archived"}}

Sessions == {"s1", "s2"}

NoSession == [op |-> "idle", user_id |-> None, pc |-> "idle", rows |-> {},
              todo |-> {}, dirty |-> {}]

Init ==
    /\ tasks = {}
    /\ nextId = 1
    /\ last = NoCall
    /\ pre = {}
    /\ prev = NoPrev
    /\ sess = [p \in Sessions |-> NoSession]
    /\ applied = [p \in Sessions |-> {}]

Next ==
    \/ /\ Idle
       /\ nextId <= MaxId
       /\ \E u \in UserIds, t \in Titles : add_task(u, t, None, "medium", NoneS, None)
    \/ /\ Idle
       /\ \E u \in UserIds, st \in {None, "all", "completed"} : list_tasks(u, st)
    \/ /\ Idle
       /\ \E u \in UserIds, t \in LookupTitles : delete_task(u, t)
    \/ /\ Idle
       /\ \E u \in UserIds, t \in LookupTitles, a \in SpecPatches :
            update_task_by_title(u, t, a)
    \/ /\ Idle
       /\ \E u \in UserIds : get_analytics(u)
    \/ /\ Idle
       /\ \E u \in UserIds : delete_all_tasks(u)
    \/ /\ Idle
       /\ \E u \in UserIds : complete_all_tasks(u)
    \/ /\ Idle
       /\ \E u \in UserIds : mark_all_tasks_incomplete(u)
    \/ Return

Spec == Init /\ [][Next]_vars

----------------------------------------------------------------------------
(* PatchSpec: one user, one row at a time, every optional argument *)

DateIso == <<"2", "0", "2", "4", "-", "0", "3", "-", "1", "5">>

DateIsoOther == <<"2", "0", "2", "5", "-", "1", "2", "-", "3", "1">>

DateUnpadded == <<"2", "0", "2", "4", "-", "3", "-", "5">>

DateWords == <<"n", "o", "t", "-", "a", "-", "d", "a", "t", "e">>

DateNoSuchDay == <<"2", "0", "2", "4", "-", "0", "2", "-", "3", "0">>

\* the due_date strings PatchSpec's callers pass
DueDates == {NoneS, <<>>, DateIso, DateIsoOther, DateUnpadded, DateWords, DateNoSuchDay}

\* at most this many optional arguments of one update call are not None
MaxPatch == 2

Supplied(a) ==
    Cardinality({f \in {"new_title", "description", "priority", "status", "tags"} :
                    a[f] # None})
        + (IF a.due_date # NoneS THEN 1 ELSE 0)

\* the optional arguments PatchSpec's callers pass to update_task_by_title
PatchSpecPatches ==
    {a \in [new_title : {None, "", "b"}, description : {None, "", "e"},
            priority : {None, "", "low"},
            status : {None, "", "completed", "archived"},
            due_date : DueDates, tags : {None, "", "s"}] :
        Supplied(a) <= MaxPatch}

PatchNext ==
    \/ /\ Idle
       /\ nextId <= MaxId
       /\ tasks = {}
       /\ \E d \in {None, "d"}, dd \in DueDates :
            add_task("u1", "a", d, "medium", dd, None)
    \/ /\ Idle
       /\ list_tasks("u1", None)
    \/ /\ Idle
       /\ \E t \in Titles : delete_task("u1", t)
    \/ /\ Idle
       /\ \E t \in Titles, a \in PatchSpecPatches : update_task_by_title("u1", t, a)
    \/ /\ Idle
       /\ get_analytics("u1")
    \/ Return

PatchSpec == Init /\ [][PatchNext]_vars

----------------------------------------------------------------------------
(* ScoreSpec: one user with up to MaxScoreId rows, completed in batches *)

MaxScoreId == 50

ScoreNext ==
    \/ /\ Idle
       /\ nextId <= MaxScoreId
       /\ add_task("u1", "a", None, "medium", NoneS, None)
    \/ /\ Idle
       /\ complete_all_tasks("u1")
    \/ /\ Idle
       /\ get_analytics("u1")
    \/ Return

ScoreSpec == Init /\ [][ScoreNext]_vars

----------------------------------------------------------------------------
(* ConcSpec: the bulk tools as the steps of their Session, two sessions     *)
(* interleaved with each other and with whole calls of the other tools.    *)
(* Rows changed inside a Session reach the table when it commits.          *)

BulkOps == {"delete_all_tasks", "complete_all_tasks", "mark_all_tasks_incomplete"}

\* the literal a bulk tool writes to status
BulkStatus(op) == IF op = "complete_all_tasks" THEN "completed" ELSE "pending"

\* session.exec(select(Task).where(Task.user_id == user_id)).all(): the rows
\* are loaded into the Session; nothing is marked yet
BulkSelect(p, op, user_id) ==
    /\ Idle
    /\ sess[p].pc = "idle"
    /\ Truthy(user_id)
    /\ sess' = [sess EXCEPT ![p] =
                    [op |-> op, user_id |-> user_id, pc |-> "loop",
                     rows |-> OwnedBy(tasks, user_id),
                     todo |-> IdsOf(OwnedBy(tasks, user_id)), dirty |-> {}]]
    /\ applied' = [applied EXCEPT ![p] = {}]
    /\ UNCHANGED <<tasks, nextId, last, pre, prev>>

\* one iteration of `for t in tasks`: session.delete(t), or t.status = ...
\* and session.add(t); the row is marked in the Session only
BulkIterate(p) ==
    /\ Idle
    /\ sess[p].pc = "loop"
    /\ \E id \in sess[p].todo :
          sess' = [sess EXCEPT ![p].todo = @ \ {id}, ![p].dirty = @ \cup {id}]
    /\ UNCHANGED <<tasks, nextId, last, pre, prev, applied>>

\* CommitPoint with session.commit() inside the loop body
CommitEachIteration(s) == s.dirty # {}

\* where session.commit() stands: after the loop, once every row is marked
CommitPoint(s) == s.todo = {}

\* the statements the flush of session s issues: a DELETE for every marked
\* row, an UPDATE for every marked row whose loaded status differs
Flushed(s) ==
    IF s.op = "delete_all_tasks" THEN s.dirty
    ELSE {t.id : t \in {r \in s.rows : r.id \in s.dirty /\ r.status # BulkStatus(s.op)}}

\* session.commit(): one transaction. An UPDATE that finds its row gone
\* raises StaleDataError and the transaction is rolled back; a DELETE that
\* finds its row gone only warns
BulkCommit(p) ==
    /\ Idle
    /\ sess[p].pc = "loop"
    /\ CommitPoint(sess[p])
    /\ LET s == sess[p]
           stale == s.op # "delete_all_tasks" /\ ~(Flushed(s) \subseteq IdsOf(tasks))
       IN  /\ tasks' = IF stale THEN tasks
                       ELSE IF s.op = "delete_all_tasks" THEN Without(tasks, Flushed(s))
                       ELSE WithStatus(tasks, Flushed(s), BulkStatus(s.op))
           /\ applied' = [applied EXCEPT ![p] = IF stale THEN @ ELSE @ \cup Flushed(s)]
           /\ sess' = [sess EXCEPT ![p] =
                           IF stale \/ s.todo = {} THEN NoSession
                           ELSE [s EXCEPT !.dirty = {}]]
    /\ UNCHANGED <<nextId, last, pre, prev>>

ConcNext ==
    \/ \E p \in Sessions, op \in BulkOps : BulkSelect(p, op, "u1")
    \/ \E p \in Sessions : BulkIterate(p)
    \/ \E p \in Sessions : BulkCommit(p)
    \/ /\ Idle
       /\ nextId <= MaxId
       /\ add_task("u1", "a", None, "medium", NoneS, None)
    \/ /\ Idle
       /\ delete_task("u1", "a")
    \/ Return

ConcSpec == Init /\ [][ConcNext]_vars

----------------------------------------------------------------------------
(* the claims *)

Falsy == {None, ""}

Succeeded(op) == last.op = op /\ last.res = "success"

NotOwnedBy(T, user_id) == {t \in T : t.user_id # user_id}

\* C1: a call made for user u leaves every row of another user as it was,
\* lists only rows of u, counts only rows of u, and delete_all_tasks(u)
\* leaves exactly the rows of the other users.
C1_Isolation ==
    ~Idle =>
        /\ NotOwnedBy(tasks, last.user_id) = NotOwnedBy(pre, last.user_id)
        /\ \A r \in last.listed :
              \E t \in pre : t.user_id = last.user_id /\ r.id = StrId(t.id)
        /\ Succeeded("get_analytics") =>
              last.analytics.tasks_total
                  = Cardinality({t \in pre : t.user_id = last.user_id})
        /\ Succeeded("delete_all_tasks") => tasks = NotOwnedBy(pre, last.user_id)

\* C1: delete_all_tasks has deleted rows of its user while another user has rows
C1_Witness ==
    /\ Succeeded("delete_all_tasks")
    /\ last.count >= 1
    /\ NotOwnedBy(tasks, last.user_id) # {}

\* an unfiltered list_tasks(u) right after a successful add_task(u, title)
CreateThenList ==
    /\ Succeeded("list_tasks")
    /\ last.args.status \in {None, "all"}
    /\ prev.op = "add_task"
    /\ prev.user_id = last.user_id

\* C2 as stated: add_task(u, title) followed by an unfiltered list_tasks(u)
\* returns exactly one task with that title, and it is pending.
C2_ExactlyOne ==
    CreateThenList =>
        /\ Cardinality({r \in last.listed : r.title = prev.title}) = 1
        /\ \A r \in last.listed : r.title = prev.title => r.status = "pending"

\* C2 amended: add_task(u, title) followed by an unfiltered list_tasks(u)
\* returns the created task, with that title and status "pending", and one
\* more task of that title than u had before: exactly one when u had none.
C2_OneMore ==
    CreateThenList =>
        /\ Cardinality({r \in last.listed : r.title = prev.title}) = prev.had + 1
        /\ \E r \in last.listed :
              r.id = prev.id /\ r.title = prev.title /\ r.status = "pending"

\* C2: the list after a create for a user who already had a task of that title
C2_Witness == CreateThenList /\ prev.had >= 1

\* C3: a successful update rewrites one row of the user with the looked-up
\* title; a field whose argument is None or "" keeps its value, a field
\* whose argument is a non-empty string takes it; every other row stays.
C3_EmptyIsNoOp ==
    Succeeded("update_task_by_title") =>
        \E old \in {t \in pre : t.user_id = last.user_id /\ t.title = last.title} :
            \E new \in tasks :
                /\ new.id = old.id
                /\ tasks \ {new} = pre \ {old}
                /\ new.user_id = old.user_id
                /\ new.title = IF last.args.new_title \in Falsy
                               THEN old.title ELSE last.args.new_title
                /\ new.description = IF last.args.description \in Falsy
                                     THEN old.description ELSE last.args.description
                /\ new.priority = IF last.args.priority \in Falsy
                                  THEN old.priority ELSE last.args.priority
                /\ new.status = IF last.args.status \in Falsy
                                THEN old.status ELSE last.args.status
                /\ new.tags = IF last.args.tags \in Falsy
                              THEN old.tags ELSE last.args.tags
                /\ last.args.due_date \in {NoneS, <<>>} => new.due_date = old.due_date

\* C3: an update passed description "" for a row that has a description
C3_Witness ==
    /\ Succeeded("update_task_by_title")
    /\ last.args.description = ""
    /\ last.args.status = "completed"
    /\ \E t \in tasks : t.description = "d" /\ t.status = "completed"

\* a delete or update with both identifiers given that matches no row
NotFound ==
    /\ last.op \in {"delete_task", "update_task_by_title"}
    /\ last.user_id \notin Falsy
    /\ last.title \notin Falsy
    /\ ~\E t \in pre : t.user_id = last.user_id /\ t.title = last.title

\* C4: a delete or update that matches no row returns status "error", does
\* not raise, and leaves the table as it was.
C4_NotFoundReturned == NotFound => last.res = "error" /\ tasks = pre

\* C4: a delete that found nothing in a table that holds rows
C4_Witness == NotFound /\ last.op = "delete_task" /\ pre # {}

\* a call without its user_id, or a delete or update without its title
MissingIdentifier ==
    /\ ~Idle
    /\ \/ last.user_id \in Falsy
       \/ last.op \in {"delete_task", "update_task_by_title"} /\ last.title \in Falsy

\* C5: a call with a missing identifier raises, or for update returns
\* status "error", and leaves the table as it was.
C5_MissingIdentifier ==
    MissingIdentifier =>
        /\ last.res = IF last.op = "update_task_by_title" THEN "error" ELSE "raised"
        /\ tasks = pre

\* C5: an add_task with the empty user_id, on a table that holds rows
C5_Witness ==
    /\ MissingIdentifier
    /\ last.op = "add_task"
    /\ last.user_id = ""
    /\ pre # {}

\* C6: get_analytics(u) returns the number of rows of u, of those completed
\* and of those pending, and floor(completed / total * 100), 0 without rows.
C6_ScoreIsFloor ==
    Succeeded("get_analytics") =>
        LET owned == {t \in pre : t.user_id = last.user_id}
            total == Cardinality(owned)
            completed == Cardinality({t \in owned : t.status = "completed"})
        IN  /\ last.analytics.tasks_total = total
            /\ last.analytics.tasks_completed = completed
            /\ last.analytics.tasks_pending
                   = Cardinality({t \in owned : t.status = "pending"})
            /\ last.analytics.productivity_score
                   = IF total > 0 THEN (completed * 100) \div total ELSE 0

\* a row of T that is t up to its status
SameButStatus(t, T) == \E n \in T : n = [t EXCEPT !.status = n.status]

\* C7: complete_all_tasks and mark_all_tasks_incomplete add no row, remove
\* none, change no field but status, and report the number of rows of the
\* user; after complete_all_tasks(u) then mark_all_tasks_incomplete(u) every
\* row of u is pending and the two counts are equal.
C7_CompleteThenReset ==
    /\ (Succeeded("complete_all_tasks") \/ Succeeded("mark_all_tasks_incomplete")) =>
          /\ IdsOf(tasks) = IdsOf(pre)
          /\ Cardinality(tasks) = Cardinality(pre)
          /\ \A t \in pre : SameButStatus(t, tasks)
          /\ last.count = Cardinality({t \in pre : t.user_id = last.user_id})
    /\ (/\ Succeeded("mark_all_tasks_incomplete")
        /\ prev.op = "complete_all_tasks"
        /\ prev.user_id = last.user_id) =>
          /\ \A t \in tasks : t.user_id = last.user_id => t.status = "pending"
          /\ last.count = prev.count

\* C7: the reset after a complete has turned two completed rows of the user
\* to pending
C7_Witness ==
    /\ Succeeded("mark_all_tasks_incomplete")
    /\ prev.op = "complete_all_tasks"
    /\ prev.user_id = last.user_id
    /\ last.count >= 2
    /\ \A t \in pre : t.status = "completed"
    /\ \A t \in tasks : t.status = "pending"

\* C8: a bulk call changes the table in one step: the step in which a
\* session's statements reach the table is its only one, it ends the call,
\* and it carries the statement of every row the call selected.
C8_BulkAtomic ==
    [][\A p \in Sessions :
          (sess[p].pc = "loop" /\ applied'[p] # applied[p]) =>
              /\ applied[p] = {}
              /\ sess'[p].pc = "idle"
              /\ applied'[p] = IF sess[p].op = "delete_all_tasks"
                               THEN IdsOf(sess[p].rows)
                               ELSE {t.id : t \in {r \in sess[p].rows :
                                         r.status # BulkStatus(sess[p].op)}}]_vars

\* C8: one session has committed a batch of two rows while the other is
\* inside its loop
C8_Witness ==
    \E p, q \in Sessions :
        /\ p # q
        /\ Cardinality(applied[p]) >= 2
        /\ sess[p].pc = "idle"
        /\ sess[q].pc = "loop"
        /\ sess[q].dirty # {}
        /\ sess[q].todo # {}

\* the row add_task has just inserted
Created == {t \in tasks : StrId(t.id) = last.task.id}

\* the update found a row, and its row now has the due date it had
DueDateKept ==
    \A old \in {t \in pre : t.user_id = last.user_id /\ t.title = last.title} :
        /\ last.res = "success"
        /\ \E new \in tasks : new.id = old.id /\ new.due_date = old.due_date

\* s is a date written YYYY-MM-DD: ten characters, zero padded
IsYmd(s) ==
    /\ Len(s) = 10
    /\ \A i \in {1, 2, 3, 4, 6, 7, 9, 10} : IsDigit(s[i])
    /\ s[5] = "-" /\ s[8] = "-"
    /\ NumAt(s, 6, 7) \in 1..12
    /\ NumAt(s, 9, 10) \in 1..DaysInMonth(NumAt(s, 1, 4), NumAt(s, 6, 7))

\* C9 as stated: a due_date string that is not a valid YYYY-MM-DD date never
\* fails the call and never writes a due date: add_task stores none, update
\* keeps the one the row had.
C9_NotYmdIgnored ==
    (~Idle /\ last.args.due_date # NoneS /\ ~IsYmd(last.args.due_date)) =>
        /\ (last.op = "add_task" /\ last.user_id \notin Falsy) =>
              /\ last.res = "success"
              /\ \A t \in Created : t.due_date = NoDate
        /\ last.op = "update_task_by_title" => DueDateKept

\* the ways %m and %d may be written: with or without the leading zero, the
\* day also with a blank in its place
MonthStrings == {Decimal(n, 1) : n \in 1..12} \cup {Decimal(n, 2) : n \in 1..9}

DayStrings ==
    {Decimal(n, 1) : n \in 1..31} \cup {Decimal(n, 2) : n \in 1..9}
        \cup {<<" ">> \o Decimal(n, 1) : n \in 1..9}

\* s is a calendar date written year-month-day, the year in four digits and
\* not 0000, month and day as above
IsLooseYmd(s) ==
    \E ml \in {1, 2}, dl \in {1, 2} :
        /\ Len(s) = 6 + ml + dl
        /\ \A i \in 1..4 : IsDigit(s[i])
        /\ NumAt(s, 1, 4) >= 1
        /\ s[5] = "-" /\ s[6 + ml] = "-"
        /\ SubSeq(s, 6, 5 + ml) \in MonthStrings
        /\ SubSeq(s, 7 + ml, 6 + ml + dl) \in DayStrings
        /\ NumAt(s, 7 + ml, 6 + ml + dl)
               <= DaysInMonth(NumAt(s, 1, 4), NumAt(s, 6, 5 + ml))

\* C9 amended: a due_date string that is not a calendar date written
\* year-month-day (four-digit year; month and day with or without the
\* leading zero, so "2024-3-5" is a date and is stored) never fails the call
\* and never writes a due date: add_task stores none, update keeps the one
\* the row had.
C9_NotLooseYmdIgnored ==
    (~Idle /\ last.args.due_date # NoneS /\ ~IsLooseYmd(last.args.due_date)) =>
        /\ (last.op = "add_task" /\ last.user_id \notin Falsy) =>
              /\ last.res = "success"
              /\ \A t \in Created : t.due_date = NoDate
        /\ last.op = "update_task_by_title" => DueDateKept

\* C9: an update passed "not-a-date" for a row that has a due date
C9_Witness ==
    /\ Succeeded("update_task_by_title")
    /\ last.args.due_date = DateWords
    /\ \E t \in tasks : t.due_date # NoDate

\* C10: a successful delete removes exactly one row, a row of the user with
\* the title given; of the k rows of the user with that title k - 1 remain.
C10_DeleteOne ==
    Succeeded("delete_task") =>
        /\ \E t \in pre :
              /\ t.user_id = last.user_id
              /\ t.title = last.title
              /\ tasks = pre \ {t}
        /\ Cardinality({t \in tasks : t.user_id = last.user_id /\ t.title = last.title})
              = Cardinality({t \in pre : t.user_id = last.user_id /\ t.title = last.title}) - 1

\* C10: a delete for a user who had two rows of that title
C10_Witness ==
    /\ Succeeded("delete_task")
    /\ Cardinality({t \in pre : t.user_id = last.user_id /\ t.title = last.title}) >= 2

====
